---- MODULE Spec2Model ----
(***************************************************************************)
(* Model of the Facebook batch-request facade: send_batch_to_facebook in   *)
(* its two variants (src/main.py, src/test2.py), the HTTP endpoints that   *)
(* call it, and the rate-limit aggregation of src/test2.py.                *)
(*                                                                         *)
(* Python strings are TLA+ strings; JSON / Python values are tagged        *)
(* records (JNull is both JSON null and Python None); a Python call that   *)
(* may raise is an operator returning [exc |-> <class name>, val |-> v],   *)
(* with exc = "none" when it returns normally.                             *)
(***************************************************************************)
EXTENDS Integers, Sequences, FiniteSets, TLC

\* ------------------------------------------------------------------ bounds
\* longest list of relative urls / account ids enumerated element by element
MaxUrls == 2
\* longest upstream answer array enumerated element by element
MaxData == 2
\* longest result list given to the aggregation on its own
MaxResults == 2

\* ------------------------------------------------------- program constants
API_VERSION == "v23.0"
MAX_BATCH == 50
HTTP_OK == 200
PLACEHOLDER == "YOUR_ACCESS_TOKEN"

\* ------------------------------------------------------------ Python values
JNull == [t |-> "null"]
JNum(n) == [t |-> "num", n |-> n]
JStr(s) == [t |-> "str", s |-> s]
JList(l) == [t |-> "list", l |-> l]
JObj(o) == [t |-> "obj", o |-> o]
EmptyDict == JObj(<<>>)

Ok(v) == [exc |-> "none", val |-> v]
Raise(e) == [exc |-> e, val |-> JNull]

\* dict.get(key, default) on the mapping o of a JObj
Get(o, k, default) == IF k \in DOMAIN o THEN o[k] ELSE default

\* Python truthiness of a JSON value (None, {}, [], "", 0 are falsy)
Truthy(v) ==
  CASE v.t = "null" -> FALSE
    [] v.t = "num" -> v.n # 0
    [] v.t = "str" -> v.s # ""
    [] v.t = "list" -> v.l # <<>>
    [] v.t = "obj" -> DOMAIN v.o # {}

\* isinstance(v, (int, float))
IsNumber(v) == v.t = "num"

\* the exception classes that an `except cls` clause catches
IsInstance(e, cls) ==
  \/ e = cls
  \/ cls = "Exception" /\ e # "none"
  \/ cls = "ValueError" /\ e = "JSONDecodeError"

\* -------------------------------------------------------------- str methods
Min(S) == CHOOSE x \in S : \A y \in S : x <= y

startswith(s, p) == Len(s) >= Len(p) /\ SubSeq(s, 1, Len(p)) = p

\* `sub in s`
Contains(s, sub) ==
  \E i \in 1..(Len(s) - Len(sub) + 1) : SubSeq(s, i, i + Len(sub) - 1) = sub

RECURSIVE lstrip_slash(_)
\* s.lstrip("/")
lstrip_slash(s) ==
  IF Len(s) > 0 /\ SubSeq(s, 1, 1) = "/"
  THEN lstrip_slash(SubSeq(s, 2, Len(s)))
  ELSE s

\* s.split("/", 1)[0] and s.split("/")[0]: the text before the first "/"
first_segment(s) ==
  LET slashes == {i \in 1..Len(s) : SubSeq(s, i, i) = "/"}
  IN IF slashes = {} THEN s ELSE SubSeq(s, 1, Min(slashes) - 1)

\* ---------------------------------------------------------------- json.loads
\* sub-response bodies (item["body"] is itself JSON text)
BODY_OK == "{\"id\": 1}"
BODY_EMPTY_OBJ == "{}"
BODY_ERR == "{\"error\": {\"message\": \"m\", \"code\": 190}}"
BODY_ERR_NULL == "{\"error\": null}"
BODY_NULL == "null"
BODY_LIST == "[]"
BODY_STR == "\"oops\""
BODY_NUM == "5"
BODY_HTML == "<html>"

\* x-fb-ads-insights-throttle values
ThrottleText(app, acc) ==
  "{\"app_id_util_pct\": " \o ToString(app) \o ", \"acc_id_util_pct\": "
    \o ToString(acc) \o "}"
ThrottleValue(app, acc) ==
  JObj([app_id_util_pct |-> JNum(app), acc_id_util_pct |-> JNum(acc)])
THROTTLE_NO_NUMBERS == "{\"app_id_util_pct\": \"high\", \"acc_id_util_pct\": null}"

\* x-business-use-case-usage values: one account id, its entries' ETAs in order
EntryText(eta) ==
  "{\"type\": \"ads_insights\", \"call_count\": 1, \"estimated_time_to_regain_access\": "
    \o ToString(eta) \o "}"
EntryValue(eta) ==
  JObj([type |-> JStr("ads_insights"), call_count |-> JNum(1),
        estimated_time_to_regain_access |-> JNum(eta)])
RECURSIVE JoinEntries(_)
JoinEntries(etas) ==
  IF etas = <<>> THEN ""
  ELSE IF Len(etas) = 1 THEN EntryText(etas[1])
  ELSE EntryText(etas[1]) \o ", " \o JoinEntries(Tail(etas))
BucText(acc, etas) == "{\"" \o acc \o "\": [" \o JoinEntries(etas) \o "]}"
BucValue(acc, etas) ==
  JObj(acc :> JList([i \in 1..Len(etas) |-> EntryValue(etas[i])]))
BUC_ENTRY_NO_ETA == "{\"1\": [{\"type\": \"ads_insights\"}]}"
BUC_NOT_A_LIST == "{\"1\": 5}"
BUC_ENTRY_NUMBER == "{\"1\": [5]}"
BUC_ETA_STRING == "{\"1\": [{\"estimated_time_to_regain_access\": \"soon\"}]}"

\* the percentages, account ids and ETA lists the header texts are built from
Pcts == {10, 20, 25, 30}
BucAccounts == {"1", "2", "act_1"}
EtaLists == {<<0>>, <<30>>, <<120>>, <<0, 120>>, <<120, 0>>, <<30, 120>>}

\* the JSON texts the model uses and the values json.loads gives for them
JsonTable ==
  (BODY_OK :> JObj([id |-> JNum(1)]))
  @@ (BODY_EMPTY_OBJ :> EmptyDict)
  @@ (BODY_ERR :> JObj([error |-> JObj([message |-> JStr("m"), code |-> JNum(190)])]))
  @@ (BODY_ERR_NULL :> JObj([error |-> JNull]))
  @@ (BODY_NULL :> JNull)
  @@ (BODY_LIST :> JList(<<>>))
  @@ (BODY_STR :> JStr("oops"))
  @@ (BODY_NUM :> JNum(5))
  @@ (THROTTLE_NO_NUMBERS :>
        JObj([app_id_util_pct |-> JStr("high"), acc_id_util_pct |-> JNull]))
  @@ (BUC_ENTRY_NO_ETA :> JObj("1" :> JList(<<JObj([type |-> JStr("ads_insights")])>>)))
  @@ (BUC_NOT_A_LIST :> JObj("1" :> JNum(5)))
  @@ (BUC_ENTRY_NUMBER :> JObj("1" :> JList(<<JNum(5)>>)))
  @@ (BUC_ETA_STRING :>
        JObj("1" :> JList(<<JObj([estimated_time_to_regain_access |-> JStr("soon")])>>)))
  @@ [x \in {ThrottleText(a, b) : a \in Pcts, b \in Pcts} |->
        LET ab == CHOOSE p \in Pcts \X Pcts : ThrottleText(p[1], p[2]) = x
        IN ThrottleValue(ab[1], ab[2])]
  @@ [x \in {BucText(k, e) : k \in BucAccounts, e \in EtaLists} |->
        LET ke == CHOOSE p \in BucAccounts \X EtaLists : BucText(p[1], p[2]) = x
        IN BucValue(ke[1], ke[2])]

\* NOTE ON STYLE: a value that is used several times is passed as an operator
\* parameter rather than named by a LET, so that each operator mentions the
\* operators it calls once.

lookup(table, text) ==
  IF text \in DOMAIN table THEN Ok(table[text]) ELSE Raise("JSONDecodeError")

\* json.loads(text) for a str argument
json_loads(text) == lookup(JsonTable, text)

\* json.loads(v) for any argument: a value that is no str raises TypeError
loads(v) == IF v.t = "str" THEN json_loads(v.s) ELSE Raise("TypeError")

\* ------------------------------------------------- send_batch_to_facebook
\* the credential check both variants start with
token_rejected(access_token) ==
  access_token = "" \/ Contains(access_token, PLACEHOLDER)

\* count_rejected with the lower limit lost: an empty list passes
count_rejected_no_lower(relative_urls) == ~(Len(relative_urls) <= MAX_BATCH)

\* `not 1 <= len(relative_urls) <= 50`
count_rejected(relative_urls) ==
  ~(1 <= Len(relative_urls) /\ Len(relative_urls) <= MAX_BATCH)

\* src/main.py: the test that a normalized url carries the version
has_version(u) ==
  \/ startswith(u, API_VERSION \o "/")
  \/ (startswith(u, "v") /\ first_segment(u) = API_VERSION)

normalize(relative_urls) ==
  [i \in 1..Len(relative_urls) |-> lstrip_slash(relative_urls[i])]

\* what the variant raises before it sends anything ("none": it goes on to send)
validate_main(relative_urls, access_token) ==
  IF token_rejected(access_token) THEN "ValueError"
  ELSE IF count_rejected(relative_urls) THEN "ValueError"
  ELSE IF \E i \in 1..Len(relative_urls) : has_version(lstrip_slash(relative_urls[i]))
       THEN "ValueError"
  ELSE "none"

validate_test2(relative_urls, access_token) ==
  IF token_rejected(access_token) THEN "ValueError"
  ELSE IF count_rejected(relative_urls) THEN "ValueError"
  ELSE "none"

validate(v, relative_urls, access_token) ==
  IF v = "main" THEN validate_main(relative_urls, access_token)
  ELSE validate_test2(relative_urls, access_token)

NULL_RESULT_MAIN == "Ket qua NULL (yeu cau co the that bai hoac bi bo qua)."
BODY_NOT_JSON_MAIN == "Body khong phai JSON. Raw: "
NULL_RESULT_TEST2 == JObj([message |-> JStr("Ket qua NULL.")])
BODY_NOT_JSON_TEST2 == JObj([message |-> JStr("Body khong phai JSON.")])

\* src/main.py: result_item as the loop creates it
result_item_main(i, normalized_urls) ==
  [request_index |-> i - 1,
   requested_url |-> IF i <= Len(normalized_urls)
                     THEN JStr(normalized_urls[i]) ELSE JNull,
   status_code |-> JNull, data |-> JNull, error |-> JNull]

\* src/main.py: `json.loads(body_text) if body_text else {}`
body_json_main(body_text) ==
  IF Truthy(body_text) THEN loads(body_text) ELSE Ok(EmptyDict)

\* src/main.py: the rest of an iteration, from the try block on
item_main_body(result_item, body_text, parsed) ==
  IF parsed.exc = "JSONDecodeError"
  THEN Ok([result_item EXCEPT !.error = JStr(BODY_NOT_JSON_MAIN \o body_text.s)])
  ELSE IF parsed.exc # "none" THEN Raise(parsed.exc)
  ELSE IF result_item.status_code = JNum(HTTP_OK)
  THEN Ok([result_item EXCEPT !.data = parsed.val])
  ELSE IF parsed.val.t = "obj" /\ "error" \in DOMAIN parsed.val.o
  THEN Ok([result_item EXCEPT !.error = parsed.val.o["error"]])
  ELSE Ok([result_item EXCEPT !.error = parsed.val])

\* src/main.py: one iteration of the loop over the answer array (i counts from 1)
item_main(i, item, normalized_urls) ==
  IF item = JNull
  THEN Ok([result_item_main(i, normalized_urls) EXCEPT
             !.error = JStr(NULL_RESULT_MAIN)])
  ELSE IF item.t # "obj" THEN Raise("AttributeError")
  ELSE item_main_body(
         [result_item_main(i, normalized_urls) EXCEPT
            !.status_code = Get(item.o, "code", JNull)],
         Get(item.o, "body", JStr("")),
         body_json_main(Get(item.o, "body", JStr(""))))

\* src/test2.py: result_item as the loop creates it (item is a dict here)
result_item_test2(i, item, normalized_urls) ==
  [request_index |-> i - 1,
   requested_url |-> JStr(normalized_urls[i]),
   status_code |-> Get(item.o, "code", JNull),
   headers |-> Get(item.o, "headers", JList(<<>>)),
   data |-> JNull, error |-> JNull]

\* src/test2.py: the try block of an iteration
item_test2_body(result_item, parsed) ==
  IF parsed.exc = "JSONDecodeError"
  THEN Ok([result_item EXCEPT !.error = BODY_NOT_JSON_TEST2])
  ELSE IF parsed.exc # "none" THEN Raise(parsed.exc)
  ELSE IF result_item.status_code = JNum(HTTP_OK)
  THEN Ok([result_item EXCEPT !.data = parsed.val])
  ELSE IF parsed.val.t # "obj" THEN Raise("AttributeError")
  ELSE Ok([result_item EXCEPT !.error = Get(parsed.val.o, "error", parsed.val)])

\* src/test2.py: one iteration of the loop over the answer array
item_test2(i, item, normalized_urls) ==
  IF i > Len(normalized_urls) THEN Raise("IndexError")
  ELSE IF item.t # "obj" THEN Raise("AttributeError")
  ELSE IF Truthy(item)
  THEN item_test2_body(result_item_test2(i, item, normalized_urls),
                       loads(Get(item.o, "body", JStr("{}"))))
  ELSE Ok([result_item_test2(i, item, normalized_urls) EXCEPT
             !.error = NULL_RESULT_TEST2])

process_item(v, i, item, normalized_urls) ==
  IF v = "main" THEN item_main(i, item, normalized_urls)
  ELSE item_test2(i, item, normalized_urls)

RECURSIVE process_from(_, _, _, _, _)
RECURSIVE process_next(_, _, _, _, _, _)
\* the loop `for i, item in enumerate(data)`: the list built, or the first
\* exception an iteration raises
process_from(v, i, items, normalized_urls, processed_results) ==
  IF i > Len(items) THEN Ok(processed_results)
  ELSE process_next(v, i, items, normalized_urls, processed_results,
                    process_item(v, i, items[i], normalized_urls))

\* ... after iteration i gave r
process_next(v, i, items, normalized_urls, processed_results, r) ==
  IF r.exc # "none" THEN Raise(r.exc)
  ELSE process_from(v, i + 1, items, normalized_urls,
                    Append(processed_results, r.val))

\* The upstream exchange as the variant sees it. An answer is
\*   [kind |-> "network"]    requests.post raised (connection, timeout)
\*   [kind |-> "http_error"] raise_for_status raised (status not 2xx)
\*   [kind |-> "not_json"]   the response text is not JSON: resp.json() raises
\*                           a JSONDecodeError, which is a ValueError
\*   [kind |-> "json", data |-> v]  resp.json() gives v
decode_main(answer, normalized_urls) ==
  IF answer.kind \in {"network", "http_error"} THEN Raise("RuntimeError")
  ELSE IF answer.kind = "not_json" THEN Raise("RuntimeError")
  ELSE IF answer.data.t = "obj" /\ "error" \in DOMAIN answer.data.o
  THEN (IF answer.data.o["error"].t = "obj" THEN Raise("RuntimeError")
        ELSE Raise("AttributeError"))
  ELSE IF answer.data.t # "list" THEN Raise("RuntimeError")
  ELSE process_from("main", 1, answer.data.l, normalized_urls, <<>>)

decode_test2(answer, normalized_urls) ==
  IF answer.kind \in {"network", "http_error"} THEN Raise("RuntimeError")
  ELSE IF answer.kind = "not_json" THEN Raise("JSONDecodeError")
  ELSE IF answer.data.t # "list" THEN Raise("RuntimeError")
  ELSE process_from("test2", 1, answer.data.l, normalized_urls, <<>>)

decode(v, answer, normalized_urls) ==
  IF v = "main" THEN decode_main(answer, normalized_urls)
  ELSE decode_test2(answer, normalized_urls)

\* ------------------------------------- _summarize_rate_limits_from_batch
THROTTLE_HEADER == "x-fb-ads-insights-throttle"
BUC_HEADER == "x-business-use-case-usage"
ACT_PREFIX == "act_"
ETA_FIELD == "estimated_time_to_regain_access"

UPPER == "ABCDEFGHIJKLMNOPQRSTUVWXYZ"
LOWER == "abcdefghijklmnopqrstuvwxyz"

\* the lower-case letter of every upper-case letter
LowerOf ==
  [c \in {SubSeq(UPPER, i, i) : i \in 1..Len(UPPER)} |->
     LET i == CHOOSE j \in 1..Len(UPPER) : SubSeq(UPPER, j, j) = c
     IN SubSeq(LOWER, i, i)]

lower_char(c) == IF c \in DOMAIN LowerOf THEN LowerOf[c] ELSE c

RECURSIVE lower(_)
\* str.lower()
lower(s) ==
  IF s = "" THEN "" ELSE lower_char(SubSeq(s, 1, 1)) \o lower(SubSeq(s, 2, Len(s)))

\* d[k] = v on a dict kept as a function
Put(d, k, v) == [x \in DOMAIN d \cup {k} |-> IF x = k THEN v ELSE d[x]]

Max2(a, b) == IF a >= b THEN a ELSE b
MaxOf(S) == CHOOSE x \in S : \A y \in S : y <= x
\* SeqMax giving the value appended last instead of the largest
SeqLast(q) == q[Len(q)]
SeqMax(q) == MaxOf({q[i] : i \in 1..Len(q)})

\* an accumulator state with the exception that left the code, if one did
Left(e, acc) == [exc |-> e, val |-> acc]

RECURSIVE headers_dict_from(_, _, _)
\* {h.get("name", "").lower(): h.get("value") for h in headers_list}: a later
\* header of the same lowered name replaces an earlier one
headers_dict_from(headers_list, j, d) ==
  IF j > Len(headers_list) THEN Ok(d)
  ELSE IF headers_list[j].t # "obj" THEN Raise("AttributeError")
  ELSE IF Get(headers_list[j].o, "name", JStr("")).t # "str"
  THEN Raise("AttributeError")
  ELSE headers_dict_from(headers_list, j + 1,
         Put(d, lower(Get(headers_list[j].o, "name", JStr("")).s),
             Get(headers_list[j].o, "value", JNull)))

\* the account of a url: its first segment when that starts with act_, else None
acc_id_of(url) ==
  IF url.t # "str" THEN JNull
  ELSE IF startswith(first_segment(url.s), ACT_PREFIX)
  THEN JStr(first_segment(url.s)) ELSE JNull

\* acc_id_from_url of a result (None also when requested_url is no str: the
\* except clause)
acc_id_from_url(result) == acc_id_of(Get(result, "requested_url", JStr("")))

\* the two `if isinstance(...)` of the throttle block
throttle_values(acc, acc_id, app, accu) ==
  [app_usage_values |->
     IF IsNumber(app) THEN Append(acc.app_usage_values, app.n)
     ELSE acc.app_usage_values,
   account_usages |->
     IF acc_id # JNull /\ IsNumber(accu) THEN Put(acc.account_usages, acc_id.s, accu.n)
     ELSE acc.account_usages,
   etas |-> acc.etas]

\* throttle_parsed with the except clause lost: a parse failure leaves the function
throttle_parsed_abort(acc, acc_id, parsed) ==
  IF parsed.exc # "none" THEN Left(parsed.exc, acc)
  ELSE IF parsed.val.t # "obj" THEN Left("AttributeError", acc)
  ELSE Left("none",
            throttle_values(acc, acc_id,
                            Get(parsed.val.o, "app_id_util_pct", JNull),
                            Get(parsed.val.o, "acc_id_util_pct", JNull)))

\* the throttle try block for a parsed (or not) header value
throttle_parsed(acc, acc_id, parsed) ==
  IF parsed.exc # "none" THEN Left("none", acc)
  ELSE IF parsed.val.t # "obj" THEN Left("AttributeError", acc)
  ELSE Left("none",
            throttle_values(acc, acc_id,
                            Get(parsed.val.o, "app_id_util_pct", JNull),
                            Get(parsed.val.o, "acc_id_util_pct", JNull)))

\* step 1 of an iteration: the throttle header. acc is the three accumulators.
throttle_step(acc, headers_dict, acc_id) ==
  throttle_parsed(acc, acc_id, loads(Get(headers_dict, THROTTLE_HEADER, JStr("{}"))))

\* eta_update storing under the bare id of the usage header
eta_update_bare(etas, buc_acc_id, entry_eta) ==
  Put(etas, buc_acc_id,
      Max2(IF buc_acc_id \in DOMAIN etas THEN etas[buc_acc_id] ELSE 0, entry_eta))

\* etas[ACT_PREFIX + buc_acc_id] = max(etas.get(buc_acc_id, 0), entry_eta)
eta_update(etas, buc_acc_id, entry_eta) ==
  Put(etas, ACT_PREFIX \o buc_acc_id,
      Max2(IF buc_acc_id \in DOMAIN etas THEN etas[buc_acc_id] ELSE 0, entry_eta))

RECURSIVE entries_loop(_, _, _, _)
\* `for entry in entries`: the etas reached, and the exception that ended the
\* loop early if one did
entries_loop(etas, buc_acc_id, entries, j) ==
  IF j > Len(entries) THEN Left("none", etas)
  ELSE IF entries[j].t # "obj" THEN Left("AttributeError", etas)
  ELSE IF Get(entries[j].o, ETA_FIELD, JNum(0)).t # "num" THEN Left("TypeError", etas)
  ELSE entries_loop(
         eta_update(etas, buc_acc_id, Get(entries[j].o, ETA_FIELD, JNum(0)).n),
         buc_acc_id, entries, j + 1)

\* `if isinstance(entries, list): for entry in entries: ...` for one account
account_entries(etas, buc_acc_id, entries) ==
  IF entries.t = "list" THEN entries_loop(etas, buc_acc_id, entries.l, 1)
  ELSE Left("none", etas)

RECURSIVE accounts_loop(_, _, _)
RECURSIVE accounts_next(_, _, _, _)
\* `for buc_acc_id, entries in buc.items()`. The usage objects of JsonTable hold
\* one account each, so the order of the keys plays no part.
accounts_loop(etas, buc, todo) ==
  IF todo = {} THEN Left("none", etas)
  ELSE accounts_next(buc, todo, CHOOSE k \in todo : TRUE,
         account_entries(etas, CHOOSE k \in todo : TRUE,
                         buc[CHOOSE k \in todo : TRUE]))

accounts_next(buc, todo, k, r) ==
  IF r.exc # "none" THEN r ELSE accounts_loop(r.val, buc, todo \ {k})

\* the end of the usage try block: a TypeError is swallowed, what was written
\* to etas before it stays
buc_caught(acc, r) ==
  Left(IF r.exc = "TypeError" THEN "none" ELSE r.exc, [acc EXCEPT !.etas = r.val])

\* the usage try block for a parsed (or not) header value
buc_parsed(acc, parsed) ==
  IF parsed.exc # "none" THEN Left("none", acc)
  ELSE IF parsed.val.t # "obj" THEN Left("AttributeError", acc)
  ELSE buc_caught(acc, accounts_loop(acc.etas, parsed.val.o, DOMAIN parsed.val.o))

\* step 2 of an iteration: the usage header
buc_step(acc, headers_dict) ==
  buc_parsed(acc, loads(Get(headers_dict, BUC_HEADER, JStr("{}"))))

\* step 2 follows step 1 unless an exception left
after_throttle(t, headers_dict) ==
  IF t.exc # "none" THEN t ELSE buc_step(t.val, headers_dict)

\* an iteration once headers_dict is built
with_headers_dict(acc, result, hd) ==
  IF hd.exc # "none" THEN Left(hd.exc, acc)
  ELSE after_throttle(throttle_step(acc, hd.val, acc_id_from_url(result)), hd.val)

\* one iteration of `for result in results`
summarize_result(acc, result) ==
  IF ~Truthy(Get(result, "headers", JList(<<>>))) THEN Left("none", acc)
  ELSE IF Get(result, "headers", JList(<<>>)).t # "list"
  THEN Left("AttributeError", acc)
  ELSE with_headers_dict(acc, result,
         headers_dict_from(Get(result, "headers", JList(<<>>)).l, 1, <<>>))

RECURSIVE summarize_from(_, _, _)
RECURSIVE summarize_next(_, _, _)
summarize_from(acc, results, i) ==
  IF i > Len(results) THEN Left("none", acc)
  ELSE summarize_next(summarize_result(acc, results[i]), results, i)

summarize_next(r, results, i) ==
  IF r.exc # "none" THEN r ELSE summarize_from(r.val, results, i + 1)

EmptyAcc == [app_usage_values |-> <<>>, account_usages |-> <<>>, etas |-> <<>>]

\* the return statement
summary_of(r) ==
  IF r.exc # "none" THEN Raise(r.exc)
  ELSE Ok([insights_app_usage |->
             IF r.val.app_usage_values # <<>>
             THEN JNum(SeqMax(r.val.app_usage_values)) ELSE JNull,
           insights_account_usages |-> r.val.account_usages,
           etas |-> r.val.etas])

\* the summary returned, or the exception raised
summarize_rate_limits_from_batch(results) ==
  summary_of(summarize_from(EmptyAcc, results, 1))

\* ------------------------------------------------------ _log_batch_summary
\* `for entry in entries` of _log_batch_summary raises AttributeError for an
\* entry that is no dict, unless an earlier entry raised TypeError first
log_entry_raises(entries) ==
  \E j \in 1..Len(entries) :
    /\ entries[j].t # "obj"
    /\ \A m \in 1..(j - 1) :
         entries[m].t = "obj" /\ Get(entries[m].o, ETA_FIELD, JNum(0)).t = "num"

\* iterating the value of one account: a str or dict gives its characters or
\* keys, which have no .get; a number or None is not iterable (TypeError)
log_account_raises(entries) ==
  \/ entries.t = "str" /\ entries.s # ""
  \/ entries.t = "obj" /\ DOMAIN entries.o # {}
  \/ entries.t = "list" /\ log_entry_raises(entries.l)

log_parsed(throttle, buc) ==
  IF throttle.exc = "none" /\ throttle.val.t # "obj" THEN "AttributeError"
  ELSE IF buc.exc # "none" THEN "none"
  ELSE IF buc.val.t # "obj" THEN "AttributeError"
  ELSE IF \E k \in DOMAIN buc.val.o : log_account_raises(buc.val.o[k])
  THEN "AttributeError"
  ELSE "none"

log_with_headers_dict(hd) ==
  IF hd.exc # "none" THEN hd.exc
  ELSE log_parsed(loads(Get(hd.val, THROTTLE_HEADER, JStr("{}"))),
                  loads(Get(hd.val, BUC_HEADER, JStr("{}"))))

\* one iteration of the loop of _log_batch_summary: the exception it raises.
\* A TypeError or JSONDecodeError inside either try block is swallowed,
\* anything else leaves the function. (As in accounts_loop, the usage objects
\* hold one account each.)
log_result_exc(result) ==
  IF ~Truthy(Get(result, "headers", JList(<<>>))) THEN "none"
  ELSE IF Get(result, "headers", JList(<<>>)).t # "list" THEN "AttributeError"
  ELSE log_with_headers_dict(
         headers_dict_from(Get(result, "headers", JList(<<>>)).l, 1, <<>>))

RECURSIVE log_from(_, _)
RECURSIVE log_next(_, _, _)
log_from(results, i) ==
  IF i > Len(results) THEN "none"
  ELSE log_next(log_result_exc(results[i]), results, i)

log_next(e, results, i) == IF e # "none" THEN e ELSE log_from(results, i + 1)

\* _log_batch_summary(results): the exception it raises ("none": it prints and
\* returns)
log_batch_summary(results) == log_from(results, 1)

\* ------------------------------------------------------------ the endpoints
VARIABLES
  variant,        \* "main" (src/main.py) or "test2" (src/test2.py)
  caller,         \* "direct" (the function itself) or the endpoint that calls it
  access_token,   \* the credential given
  inputs,         \* the relative urls given (the account ids, for GET /rate_limit)
  pc,             \* "received", "calling", "returned", "responded"
  relative_urls,  \* the list handed to send_batch_to_facebook
  answer,         \* the upstream answer to the one call made, JNull before it
  calls,          \* outbound network calls made so far
  outcome,        \* what send_batch_to_facebook returned or raised
  response,       \* the HTTP response of the endpoint
  sum_pc,         \* the aggregation on its own: "idle", "ready", "done"
  sum_results,    \* ... the result list it is given
  sum_out,        \* ... the summary it returned or the exception it raised
  requests,       \* two requests handled at once: each one's position and data
  frames          \* ... the local accumulators of each running aggregation

vars == <<variant, caller, access_token, inputs, pc, relative_urls, answer, calls,
          outcome, response, sum_pc, sum_results, sum_out, requests, frames>>

sender_vars == <<variant, caller, access_token, inputs, pc, relative_urls, answer,
                 calls, outcome, response>>
sum_vars == <<sum_pc, sum_results, sum_out>>
conc_vars == <<requests, frames>>

SeqsUpTo(S, n) == UNION {[1..k -> S] : k \in 0..n}
Repeat(x, n) == [i \in 1..n |-> x]

Callers ==
  {<<"main", "direct">>, <<"main", "GET /batch">>, <<"main", "POST /batch">>,
   <<"test2", "direct">>, <<"test2", "POST /batch">>, <<"test2", "GET /rate_limit">>}

Tokens == {"", "EAAB", "my-YOUR_ACCESS_TOKEN-1"}
PathPool == {"/act_1/ads", "v23.0/me", "//v23.0", "v23.0x/me"}
AccountPool == {"act_1", "/act_2", "7"}

\* lists enumerated up to MaxUrls, and one-path lists at and over the limit
InputLists(pool) ==
  SeqsUpTo(pool, MaxUrls)
    \cup {Repeat(x, n) : x \in pool, n \in {MAX_BATCH, MAX_BATCH + 1}}

Header(name, value) == JObj([name |-> JStr(name), value |-> JStr(value)])
Item(code, body) == JObj([code |-> JNum(code), body |-> JStr(body)])
ItemH(code, body, headers) ==
  JObj([code |-> JNum(code), body |-> JStr(body), headers |-> JList(headers)])

\* the elements an upstream answer array is made of
Items ==
  {JNull, EmptyDict,
   ItemH(200, BODY_OK,
         <<Header("X-FB-Ads-Insights-Throttle", ThrottleText(10, 30)),
           Header("x-business-use-case-usage", BucText("1", <<120, 0>>))>>),
   ItemH(200, BODY_EMPTY_OBJ, <<Header(THROTTLE_HEADER, BODY_LIST)>>),
   JObj([code |-> JNum(200)]),
   Item(400, BODY_ERR),
   Item(404, BODY_LIST),
   Item(500, BODY_NULL),
   Item(500, BODY_HTML)}

TOP_LEVEL_ERROR ==
  JObj([error |-> JObj([message |-> JStr("Invalid OAuth access token."),
                        type |-> JStr("OAuthException"), code |-> JNum(190)])])
TOP_LEVEL_OBJECT == JObj([data |-> JList(<<>>)])

\* what the upstream can answer to a batch of n sub-requests
Answers(n) ==
  {[kind |-> "network"], [kind |-> "http_error"], [kind |-> "not_json"]}
    \cup {[kind |-> "json", data |-> v] : v \in {TOP_LEVEL_ERROR, TOP_LEVEL_OBJECT}}
    \cup {[kind |-> "json", data |-> JList(q)] : q \in SeqsUpTo(Items, MaxData)}
    \cup {[kind |-> "json", data |-> JList(Repeat(x, n))] : x \in Items}

NoOutcome == [exc |-> "pending", val |-> JNull]
NoResponse == [status |-> 0, body |-> JNull]

SumIdle == sum_pc = "idle" /\ sum_results = <<>> /\ sum_out = NoOutcome

\* no second request: one request or one call is looked at on its own
ConcIdle == requests = <<>> /\ frames = <<>>

Init ==
  /\ \E c \in Callers : variant = c[1] /\ caller = c[2]
  /\ access_token \in Tokens
  /\ inputs \in InputLists(IF caller = "GET /rate_limit" THEN AccountPool ELSE PathPool)
  /\ pc = "received"
  /\ relative_urls = <<>>
  /\ answer = JNull
  /\ calls = 0
  /\ outcome = NoOutcome
  /\ response = NoResponse
  /\ SumIdle
  /\ ConcIdle

\* probe_url that asks for the caller's own account whatever the id is
probe_url_me(acc_id) == "me/insights?fields=account_id&limit=1"

\* the probe url GET /rate_limit builds for one account id
probe_url(acc_id) == acc_id \o "/insights?fields=account_id&limit=1"

\* What happens before send_batch_to_facebook is called. POST /batch takes a
\* BatchRequest, whose validation (validate_urls, min_length / max_length) the
\* framework answers with 422; GET /rate_limit refuses an empty id list.
Receive ==
  /\ pc = "received"
  /\ IF caller = "POST /batch" /\ count_rejected(inputs)
     THEN /\ response' = [status |-> 422, body |-> JNull]
          /\ pc' = "responded"
          /\ UNCHANGED relative_urls
     ELSE IF caller = "GET /rate_limit" /\ inputs = <<>>
     THEN /\ response' = [status |-> 400, body |-> JNull]
          /\ pc' = "responded"
          /\ UNCHANGED relative_urls
     ELSE /\ relative_urls' =
               IF caller = "GET /rate_limit"
               THEN [i \in 1..Len(inputs) |-> probe_url(inputs[i])]
               ELSE inputs
          /\ pc' = "calling"
          /\ UNCHANGED response
  /\ UNCHANGED <<variant, caller, access_token, inputs, answer, calls, outcome>>
  /\ UNCHANGED sum_vars
  /\ UNCHANGED conc_vars

\* send_batch_to_facebook raises before sending
SendRejected ==
  /\ pc = "calling"
  /\ \E e \in {validate(variant, relative_urls, access_token)} :
       e # "none" /\ outcome' = Raise(e)
  /\ pc' = "returned"
  /\ UNCHANGED <<variant, caller, access_token, inputs, relative_urls, answer, calls,
                 response>>
  /\ UNCHANGED sum_vars
  /\ UNCHANGED conc_vars

\* SendBatch with a retry: after a network failure the batch is sent again
SendBatchRetry ==
  /\ pc = "calling"
  /\ validate(variant, relative_urls, access_token) = "none"
  /\ \E a \in Answers(Len(relative_urls)) :
       /\ answer' = a
       /\ outcome' = decode(variant, a, normalize(relative_urls))
       /\ calls' = IF a.kind = "network" THEN calls + 2 ELSE calls + 1
  /\ pc' = "returned"
  /\ UNCHANGED <<variant, caller, access_token, inputs, relative_urls, response>>
  /\ UNCHANGED sum_vars
  /\ UNCHANGED conc_vars

\* send_batch_to_facebook sends the batch, once, and decodes the answer
SendBatch ==
  /\ pc = "calling"
  /\ validate(variant, relative_urls, access_token) = "none"
  /\ \E a \in Answers(Len(relative_urls)) :
       /\ answer' = a
       /\ outcome' = decode(variant, a, normalize(relative_urls))
  /\ calls' = calls + 1
  /\ pc' = "returned"
  /\ UNCHANGED <<variant, caller, access_token, inputs, relative_urls, response>>
  /\ UNCHANGED sum_vars
  /\ UNCHANGED conc_vars

\* the except clauses of GET /batch and POST /batch
status_of(exc) ==
  IF IsInstance(exc, "ValueError") THEN 400
  ELSE IF IsInstance(exc, "RuntimeError") THEN 502
  ELSE 500

\* src/main.py: GET /batch and POST /batch
respond_main(out) ==
  IF out.exc = "none"
  THEN [status |-> 200, body |-> [status |-> "success", results |-> out.val]]
  ELSE [status |-> status_of(out.exc), body |-> JNull]

\* src/test2.py: POST /batch once the results are there
batch_summarized(results, summary, logged) ==
  IF summary.exc # "none" THEN [status |-> status_of(summary.exc), body |-> JNull]
  ELSE IF logged # "none" THEN [status |-> status_of(logged), body |-> JNull]
  ELSE [status |-> 200,
        body |-> [status |-> "success", rate_limit_summary |-> summary.val,
                  results |-> results]]

\* src/test2.py: POST /batch
respond_test2_batch(out) ==
  IF out.exc # "none" THEN [status |-> status_of(out.exc), body |-> JNull]
  ELSE batch_summarized(out.val, summarize_rate_limits_from_batch(out.val),
                        log_batch_summary(out.val))

\* src/test2.py: GET /rate_limit once the results are there
rate_limit_summarized(summary) ==
  IF summary.exc # "none" THEN [status |-> 500, body |-> JNull]
  ELSE [status |-> 200,
        body |-> [app_id_util_pct |-> summary.val.insights_app_usage,
                  acc_id_util_pct |-> summary.val.insights_account_usages,
                  message |-> "Truy van thanh cong."]]

\* src/test2.py: GET /rate_limit
respond_rate_limit(out) ==
  IF out.exc # "none" THEN [status |-> 500, body |-> JNull]
  ELSE rate_limit_summarized(summarize_rate_limits_from_batch(out.val))

\* the endpoint turns what send_batch_to_facebook gave into its HTTP response
Respond ==
  /\ pc = "returned"
  /\ caller # "direct"
  /\ response' =
       IF variant = "main" THEN respond_main(outcome)
       ELSE IF caller = "POST /batch" THEN respond_test2_batch(outcome)
       ELSE respond_rate_limit(outcome)
  /\ pc' = "responded"
  /\ UNCHANGED <<variant, caller, access_token, inputs, relative_urls, answer, calls,
                 outcome>>
  /\ UNCHANGED sum_vars
  /\ UNCHANGED conc_vars

Next == Receive \/ SendRejected \/ SendBatch \/ Respond

Spec == Init /\ [][Next]_vars

\* ------------------------------------------------ the aggregation on its own
ResultUrls == {"act_1/insights", "me/adaccounts"}

\* header values that are no JSON, and a header value that is no str
NOT_JSON == "<html>"
HeaderRaw(name, value) == JObj([name |-> JStr(name), value |-> value])

\* the header lists of one result: the echoed headers of one HTTP response, in
\* which a header name occurs once
HeaderLists ==
  {<<>>,
   <<Header(THROTTLE_HEADER, ThrottleText(10, 30))>>,
   <<Header(THROTTLE_HEADER, ThrottleText(25, 20))>>,
   <<Header(THROTTLE_HEADER, THROTTLE_NO_NUMBERS)>>,
   <<Header(THROTTLE_HEADER, NOT_JSON)>>,
   <<Header(THROTTLE_HEADER, BODY_LIST)>>,
   <<HeaderRaw(THROTTLE_HEADER, JNum(5))>>,
   <<Header(BUC_HEADER, BucText("1", <<120, 0>>))>>,
   <<Header(BUC_HEADER, BucText("1", <<0, 120>>))>>,
   <<Header(BUC_HEADER, BucText("1", <<30>>))>>,
   <<Header(BUC_HEADER, BucText("2", <<30, 120>>))>>,
   <<Header(BUC_HEADER, BucText("act_1", <<120>>))>>,
   <<Header(BUC_HEADER, NOT_JSON)>>,
   <<Header(BUC_HEADER, BUC_NOT_A_LIST)>>,
   <<Header(BUC_HEADER, BUC_ENTRY_NUMBER)>>,
   <<Header(BUC_HEADER, BUC_ETA_STRING)>>,
   <<Header(BUC_HEADER, BUC_ENTRY_NO_ETA)>>,
   <<Header("X-FB-Ads-Insights-Throttle", ThrottleText(10, 30)),
     Header("X-Business-Use-Case-Usage", BucText("1", <<30>>))>>,
   <<Header(THROTTLE_HEADER, NOT_JSON),
     Header(BUC_HEADER, BucText("1", <<120>>))>>}

\* a result as src/test2.py builds it, for a sub-response that succeeded
ResultOf(url, headers) ==
  [request_index |-> 0, requested_url |-> JStr(url), status_code |-> JNum(HTTP_OK),
   headers |-> JList(headers), data |-> EmptyDict, error |-> JNull]

ResultPool == {ResultOf(u, h) : u \in ResultUrls, h \in HeaderLists}

\* request_index is the position in the list
Indexed(q) == [i \in 1..Len(q) |-> [q[i] EXCEPT !.request_index = i - 1]]

ResultLists == {Indexed(q) : q \in SeqsUpTo(ResultPool, MaxResults)}

SenderIdle ==
  /\ variant = "test2" /\ caller = "direct" /\ access_token = "" /\ inputs = <<>>
  /\ pc = "idle" /\ relative_urls = <<>> /\ answer = JNull /\ calls = 0
  /\ outcome = NoOutcome /\ response = NoResponse

InitSum ==
  /\ SenderIdle
  /\ sum_pc = "ready"
  /\ sum_results \in ResultLists
  /\ sum_out = NoOutcome
  /\ ConcIdle

\* one call of _summarize_rate_limits_from_batch
Summarize ==
  /\ sum_pc = "ready"
  /\ sum_out' = summarize_rate_limits_from_batch(sum_results)
  /\ sum_pc' = "done"
  /\ UNCHANGED sum_results
  /\ UNCHANGED sender_vars
  /\ UNCHANGED conc_vars

NextSum == Summarize

SpecSum == InitSum /\ [][NextSum]_vars

\* ------------------------------------------------------------------ claims
\* send_batch_to_facebook has returned or raised
SendDone == outcome.exc # "pending"

\* the upstream answered with a JSON array
AnswerIsList == answer # JNull /\ answer.kind = "json" /\ answer.data.t = "list"

\* the input is one the specification calls invalid
TokenInvalid == access_token = "" \/ Contains(access_token, PLACEHOLDER)
CountInvalid == Len(relative_urls) = 0 \/ Len(relative_urls) > MAX_BATCH
Versioned ==
  \E i \in 1..Len(relative_urls) :
    first_segment(lstrip_slash(relative_urls[i])) = API_VERSION

\* the upstream exchange failed as a whole
UpstreamFailed ==
  /\ calls > 0
  /\ \/ answer.kind # "json"
     \/ answer.data.t # "list"
     \/ Len(answer.data.l) # Len(relative_urls)

\* C1: every normal return of send_batch_to_facebook holds one entry per
\* submitted path, the i-th with request_index = i and requested_url = the i-th
\* path without its leading slashes, whatever array the upstream answered with.
C1_OneResultPerPath ==
  outcome.exc = "none" =>
    /\ Len(outcome.val) = Len(relative_urls)
    /\ \A i \in 1..Len(outcome.val) :
         /\ outcome.val[i].request_index = i - 1
         /\ outcome.val[i].requested_url = JStr(lstrip_slash(relative_urls[i]))

\* C2: a null element at position i of the upstream array does not stop the
\* call: it returns normally and result i has a non-empty error marker, no
\* status code and no data.
C2_NullElementTolerated ==
  (SendDone /\ AnswerIsList) =>
    \A i \in 1..Len(answer.data.l) :
      answer.data.l[i] = JNull =>
        /\ outcome.exc = "none"
        /\ Truthy(outcome.val[i].error)
        /\ outcome.val[i].status_code = JNull
        /\ outcome.val[i].data = JNull

\* the body of an element is text that json.loads accepts
BodyIsJson(item) ==
  /\ "body" \in DOMAIN item.o
  /\ item.o["body"].t = "str"
  /\ item.o["body"].s \in DOMAIN JsonTable

\* C3: for a non-null element, status 200 with a JSON body gives data = the
\* parsed body and no error; any other status gives an error and no data; no
\* result has both data and error.
C3_DataXorError ==
  (outcome.exc = "none" /\ AnswerIsList) =>
    \A i \in 1..Len(outcome.val) :
      LET item == answer.data.l[i]
          r == outcome.val[i]
      IN item.t = "obj" =>
           /\ (Get(item.o, "code", JNull) = JNum(HTTP_OK) /\ BodyIsJson(item)) =>
                (r.data = JsonTable[item.o["body"].s] /\ r.error = JNull)
           /\ Get(item.o, "code", JNull) # JNum(HTTP_OK) =>
                (r.error # JNull /\ r.data = JNull)
           /\ ~(r.data # JNull /\ r.error # JNull)

\* C4: send_batch_to_facebook raises ValueError, returns no list and sends
\* nothing whenever the path list is empty or longer than 50 or the credential
\* is empty or contains the placeholder.
C4_InvalidInputRejected ==
  (SendDone /\ (TokenInvalid \/ CountInvalid)) =>
    (outcome.exc = "ValueError" /\ outcome.val = JNull /\ calls = 0)

\* C4 witness: a list of 51 paths with a good credential was refused
C4_Witness ==
  /\ outcome.exc = "ValueError"
  /\ Len(relative_urls) = MAX_BATCH + 1
  /\ access_token = "EAAB"

\* C5: a batch with a path whose first segment is the version tag is refused
\* with ValueError, in both variants; a path with another first segment is
\* never refused for this reason.
C5_VersionPathRejected ==
  SendDone =>
    /\ Versioned => outcome.exc = "ValueError"
    /\ (~Versioned /\ ~TokenInvalid /\ ~CountInvalid) => outcome.exc # "ValueError"

\* C6: for a request whose handler called send_batch_to_facebook, the HTTP
\* status is 400 exactly for an input validation failure, 502 exactly for an
\* upstream failure, 200 only when nothing failed, 500 otherwise.
C6_StatusCodes ==
  (pc = "responded" /\ SendDone) =>
    LET invalid == TokenInvalid \/ Len(inputs) = 0 \/ Len(inputs) > MAX_BATCH
                     \/ Versioned
    IN /\ response.status \in {200, 400, 500, 502}
       /\ response.status = 400 <=> invalid
       /\ response.status = 502 <=> (~invalid /\ UpstreamFailed)
       /\ response.status = 200 => (~invalid /\ ~UpstreamFailed)

\* C7: when the upstream exchange fails as a whole (transport, status, body
\* that is no JSON, no array, an array of another length than the batch, a
\* top-level error object) the call raises RuntimeError and returns no list.
C7_UpstreamFailureRaises ==
  (SendDone /\ UpstreamFailed) => (outcome.exc = "RuntimeError" /\ outcome.val = JNull)

\* C8: with an array of sub-responses (none null) answered, the call returns
\* normally whatever the bodies hold, and every element with a status other
\* than 200 has its failure in the error field of its own result.
C8_SubErrorsStayLocal ==
  (/\ SendDone
   /\ AnswerIsList
   /\ Len(answer.data.l) = Len(relative_urls)
   /\ \A i \in 1..Len(answer.data.l) : Truthy(answer.data.l[i])) =>
    /\ outcome.exc = "none"
    /\ \A i \in 1..Len(answer.data.l) :
         Get(answer.data.l[i].o, "code", JNull) # JNum(HTTP_OK) =>
           (outcome.val[i].error # JNull /\ outcome.val[i].data = JNull)

\* C9: _summarize_rate_limits_from_batch returns a summary for every result
\* list, whatever the headers hold; it never raises.
C9_SummarizeNeverFails == sum_pc = "done" => sum_out.exc = "none"

\* the numeric ETAs of account k in the usage header of one result
EtasOf(result, k) ==
  LET hd == headers_dict_from(result.headers.l, 1, <<>>)
      buc == loads(Get(hd.val, BUC_HEADER, JStr("{}")))
  IN IF hd.exc # "none" \/ buc.exc # "none" THEN {}
     ELSE IF buc.val.t # "obj" THEN {}
     ELSE IF k \notin DOMAIN buc.val.o THEN {}
     ELSE IF buc.val.o[k].t # "list" THEN {}
     ELSE {Get(buc.val.o[k].l[j].o, ETA_FIELD, JNum(0)).n :
             j \in {m \in 1..Len(buc.val.o[k].l) :
                      /\ buc.val.o[k].l[m].t = "obj"
                      /\ Get(buc.val.o[k].l[m].o, ETA_FIELD, JNum(0)).t = "num"}}

UsageEtas(results, k) == UNION {EtasOf(results[i], k) : i \in 1..Len(results)}

\* C10: the ETA reported for an account is the maximum
\* estimated_time_to_regain_access over all its usage-header entries of the
\* batch, in whatever order they come.
C10_EtaIsMax ==
  (sum_pc = "done" /\ sum_out.exc = "none") =>
    \A k \in BucAccounts :
      UsageEtas(sum_results, k) # {} =>
        /\ (ACT_PREFIX \o k) \in DOMAIN sum_out.val.etas
        /\ sum_out.val.etas[ACT_PREFIX \o k] = MaxOf(UsageEtas(sum_results, k))

\* the accounts the results of the aggregation's inputs are addressed to
SumAccounts == {first_segment(u) : u \in ResultUrls}

\* the numeric acc_id_util_pct that the throttle header of one result reports
\* for account k (the account of the result's own url)
AccPctsOf(result, k) ==
  LET hd == headers_dict_from(result.headers.l, 1, <<>>)
      throttle == loads(Get(hd.val, THROTTLE_HEADER, JStr("{}")))
  IN IF acc_id_from_url(result) # JStr(k) THEN {}
     ELSE IF hd.exc # "none" \/ throttle.exc # "none" THEN {}
     ELSE IF throttle.val.t # "obj" THEN {}
     ELSE IF Get(throttle.val.o, "acc_id_util_pct", JNull).t # "num" THEN {}
     ELSE {Get(throttle.val.o, "acc_id_util_pct", JNull).n}

UsagePcts(results, k) == UNION {AccPctsOf(results[i], k) : i \in 1..Len(results)}

\* C11: the usage percentage reported for an account is the maximum of the
\* acc_id_util_pct values the results addressed to that account carry, not the
\* value of the last of them.
C11_AccountUsageIsMax ==
  (sum_pc = "done" /\ sum_out.exc = "none") =>
    \A k \in SumAccounts :
      UsagePcts(sum_results, k) # {} =>
        /\ k \in DOMAIN sum_out.val.insights_account_usages
        /\ sum_out.val.insights_account_usages[k] = MaxOf(UsagePcts(sum_results, k))

\* the numeric app_id_util_pct that the throttle header of one result reports
AppPctsOf(result) ==
  LET hd == headers_dict_from(result.headers.l, 1, <<>>)
      throttle == loads(Get(hd.val, THROTTLE_HEADER, JStr("{}")))
  IN IF hd.exc # "none" \/ throttle.exc # "none" THEN {}
     ELSE IF throttle.val.t # "obj" THEN {}
     ELSE IF Get(throttle.val.o, "app_id_util_pct", JNull).t # "num" THEN {}
     ELSE {Get(throttle.val.o, "app_id_util_pct", JNull).n}

AppPcts(results) == UNION {AppPctsOf(results[i]) : i \in 1..Len(results)}

\* C12: insights_app_usage of a returned summary is the maximum of the numeric
\* app_id_util_pct values of the results' throttle headers, and None exactly
\* when there is none (empty list, results without headers).
C12_AppUsageIsMax ==
  (sum_pc = "done" /\ sum_out.exc = "none") =>
    sum_out.val.insights_app_usage =
      IF AppPcts(sum_results) = {} THEN JNull ELSE JNum(MaxOf(AppPcts(sum_results)))

\* C12 witness: two results reporting 25 and then 10 were summarized to 25
C12_Witness ==
  /\ sum_pc = "done"
  /\ Len(sum_results) = 2
  /\ AppPctsOf(sum_results[1]) = {25}
  /\ AppPctsOf(sum_results[2]) = {10}
  /\ sum_out.exc = "none"
  /\ sum_out.val.insights_app_usage = JNum(25)

\* a header whose value is text that json.loads refuses
Malformed(h) ==
  /\ h.t = "obj"
  /\ Get(h.o, "value", JNull).t = "str"
  /\ Get(h.o, "value", JNull).s \notin DOMAIN JsonTable

\* the list q without its j-th element
Without(q, j) == [m \in 1..(Len(q) - 1) |-> IF m < j THEN q[m] ELSE q[m + 1]]

\* the result list with header j of result i removed
WithoutHeader(results, i, j) ==
  [results EXCEPT ![i].headers = JList(Without(results[i].headers.l, j))]

\* C13: the outcome of _summarize_rate_limits_from_batch for a list with a
\* header of malformed JSON is its outcome for the list without that one
\* header: only that header of that result is skipped.
C13_MalformedHeaderSkipped ==
  sum_pc = "done" =>
    \A i \in 1..Len(sum_results) :
      \A j \in 1..Len(sum_results[i].headers.l) :
        Malformed(sum_results[i].headers.l[j]) =>
          sum_out = summarize_rate_limits_from_batch(WithoutHeader(sum_results, i, j))

\* C13 witness: a result with a malformed throttle header still gave its ETA,
\* and the next result its usage
C13_Witness ==
  /\ sum_pc = "done"
  /\ Len(sum_results) = 2
  /\ Len(sum_results[1].headers.l) = 2
  /\ Malformed(sum_results[1].headers.l[1])
  /\ sum_out.exc = "none"
  /\ ACT_PREFIX \o "1" \in DOMAIN sum_out.val.etas
  /\ sum_out.val.insights_app_usage = JNum(10)

\* C14: an invocation of send_batch_to_facebook makes at most one outbound
\* call: one when its validation passed, none when it raised before sending,
\* and no further one after the call failed or after the endpoint answered.
C14_OneCallPerInvocation ==
  /\ calls <= 1
  /\ SendDone =>
       calls = IF validate(variant, relative_urls, access_token) = "none" THEN 1 ELSE 0

\* C14 witness: the one call failed on the network and the endpoint answered
C14_Witness ==
  /\ pc = "responded"
  /\ answer # JNull
  /\ answer.kind = "network"
  /\ outcome.exc = "RuntimeError"
  /\ calls = 1

\* ------------------------------------- two requests to POST /batch at once
\* (src/test2.py). Each handler calls send_batch_to_facebook, then runs the
\* loop of _summarize_rate_limits_from_batch one result at a time, so that the
\* steps of the two requests interleave in every order.
Reqs == {1, 2}

ConcTokens == {"EAAB", ""}
ConcInputs == {<<"act_1/insights">>, <<"/act_1/insights", "me/adaccounts">>}

\* the sub-responses the upstream answers these requests with
ConcItems ==
  {ItemH(200, BODY_OK,
         <<Header("X-FB-Ads-Insights-Throttle", ThrottleText(10, 30)),
           Header(BUC_HEADER, BucText("1", <<120, 0>>))>>),
   ItemH(200, BODY_EMPTY_OBJ, <<Header(THROTTLE_HEADER, ThrottleText(25, 20))>>)}

ConcAnswers ==
  {[kind |-> "network"]}
    \cup {[kind |-> "json", data |-> JList(q)] : q \in SeqsUpTo(ConcItems, MaxData)}

\* the accumulators of a call shared by all calls instead of local to it
frame_shared(r) == 1

\* app_usage_values, account_usages and etas are locals of the call: every
\* call of _summarize_rate_limits_from_batch has its own
frame_of(r) == r

\* a request as it arrives. overlapped is history, not program state: a step of
\* this request's aggregation ran while the other request was in its own.
NewRequest(token, urls) ==
  [pc |-> "received", access_token |-> token, relative_urls |-> urls,
   answer |-> JNull, outcome |-> NoOutcome, i |-> 0, overlapped |-> FALSE,
   response |-> NoResponse]

InitConc ==
  /\ SenderIdle
  /\ SumIdle
  /\ requests \in [Reqs -> {NewRequest(t, u) : t \in ConcTokens, u \in ConcInputs}]
  /\ frames = [f \in Reqs |-> Left("none", EmptyAcc)]

\* what send_batch_to_facebook gives request rq for the upstream answer a
conc_outcome(rq, a) ==
  IF validate("test2", rq.relative_urls, rq.access_token) # "none"
  THEN Raise(validate("test2", rq.relative_urls, rq.access_token))
  ELSE decode("test2", a, normalize(rq.relative_urls))

\* the handler of request r calls send_batch_to_facebook
CSend(r) ==
  /\ requests[r].pc = "received"
  /\ \E a \in ConcAnswers :
       requests' = [requests EXCEPT
         ![r].answer =
            IF validate("test2", requests[r].relative_urls,
                        requests[r].access_token) = "none" THEN a ELSE JNull,
         ![r].outcome = conc_outcome(requests[r], a),
         ![r].pc = "returned"]
  /\ UNCHANGED frames
  /\ UNCHANGED <<sender_vars, sum_vars>>

\* _summarize_rate_limits_from_batch is entered: its accumulators are created
CEnter(r) ==
  /\ requests[r].pc = "returned"
  /\ requests[r].outcome.exc = "none"
  /\ frames' = [frames EXCEPT ![frame_of(r)] = Left("none", EmptyAcc)]
  /\ requests' = [requests EXCEPT ![r].pc = "summarizing", ![r].i = 1]
  /\ UNCHANGED <<sender_vars, sum_vars>>

\* one iteration of its loop `for result in results`
CStep(r) ==
  /\ requests[r].pc = "summarizing"
  /\ requests[r].i <= Len(requests[r].outcome.val)
  /\ frames[frame_of(r)].exc = "none"
  /\ frames' = [frames EXCEPT ![frame_of(r)] =
                  summarize_result(frames[frame_of(r)].val,
                                   requests[r].outcome.val[requests[r].i])]
  /\ requests' = [requests EXCEPT
       ![r].i = requests[r].i + 1,
       ![r].overlapped =
          requests[r].overlapped
            \/ \E o \in Reqs \ {r} : requests[o].pc = "summarizing"]
  /\ UNCHANGED <<sender_vars, sum_vars>>

\* the handler answers: after an exception of send_batch_to_facebook, or with
\* the summary once the loop has ended (normally or by an exception)
CRespond(r) ==
  /\ \/ /\ requests[r].pc = "returned"
        /\ requests[r].outcome.exc # "none"
        /\ requests' = [requests EXCEPT
             ![r].response = [status |-> status_of(requests[r].outcome.exc),
                              body |-> JNull],
             ![r].pc = "responded"]
     \/ /\ requests[r].pc = "summarizing"
        /\ \/ requests[r].i > Len(requests[r].outcome.val)
           \/ frames[frame_of(r)].exc # "none"
        /\ requests' = [requests EXCEPT
             ![r].response =
                batch_summarized(requests[r].outcome.val,
                                 summary_of(frames[frame_of(r)]),
                                 log_batch_summary(requests[r].outcome.val)),
             ![r].pc = "responded"]
  /\ UNCHANGED frames
  /\ UNCHANGED <<sender_vars, sum_vars>>

NextConc == \E r \in Reqs : CSend(r) \/ CEnter(r) \/ CStep(r) \/ CRespond(r)

SpecConc == InitConc /\ [][NextConc]_vars

\* C15: under every interleaving of two requests, what each one is answered
\* (status, results, rate-limit summary) is what the handler gives for its own
\* results alone, and the results are those send_batch_to_facebook returned.
C15_RequestsIndependent ==
  \A r \in DOMAIN requests :
    requests[r].pc = "responded" =>
      requests[r].response = respond_test2_batch(requests[r].outcome)

\* C15 witness: two aggregations overlapped and each request got its own
\* summary, different from the other's
C15_Witness ==
  /\ DOMAIN requests = Reqs
  /\ \A r \in Reqs :
       /\ requests[r].pc = "responded"
       /\ requests[r].overlapped
       /\ requests[r].response.status = 200
  /\ requests[1].response.body.rate_limit_summary
       # requests[2].response.body.rate_limit_summary

\* the fields of the body GET /rate_limit answers with
RATE_LIMIT_FIELDS == {"app_id_util_pct", "acc_id_util_pct", "message"}

\* C16: GET /rate_limit with an empty id list answers 400 and sends nothing;
\* with k ids that pass the sender's checks it sends one batch of k
\* sub-requests, the i-th addressed to the i-th id, and a 200 answer holds the
\* application usage and the per-account usage of the summary and no results.
C16_RateLimitProbes ==
  caller = "GET /rate_limit" =>
    /\ inputs = <<>> => (calls = 0 /\ (pc = "responded" => response.status = 400))
    /\ (SendDone /\ inputs # <<>> /\ ~TokenInvalid /\ Len(inputs) <= MAX_BATCH) =>
         calls = 1
    /\ calls = 1 =>
         /\ Len(normalize(relative_urls)) = Len(inputs)
         /\ \A i \in 1..Len(inputs) :
              first_segment(normalize(relative_urls)[i]) = lstrip_slash(inputs[i])
    /\ (pc = "responded" /\ response.status = 200) =>
         /\ calls = 1
         /\ DOMAIN response.body = RATE_LIMIT_FIELDS
         /\ response.body.app_id_util_pct
              = IF AppPcts(outcome.val) = {} THEN JNull
                ELSE JNum(MaxOf(AppPcts(outcome.val)))
         /\ \A k \in DOMAIN response.body.acc_id_util_pct :
              \E i \in 1..Len(inputs) : k = lstrip_slash(inputs[i])

\* C16 witness: two ids were probed in one batch and the usage came back
C16_Witness ==
  /\ caller = "GET /rate_limit"
  /\ Len(inputs) = 2
  /\ inputs[1] # inputs[2]
  /\ calls = 1
  /\ pc = "responded"
  /\ response.status = 200
  /\ response.body.app_id_util_pct = JNum(10)
  /\ DOMAIN response.body.acc_id_util_pct # {}

\* the accounts of the results whose requested path starts with act_
ActAccounts(results) ==
  {first_segment(results[i].requested_url.s) :
     i \in {m \in 1..Len(results) :
              startswith(first_segment(results[m].requested_url.s), ACT_PREFIX)}}

\* C17: in a returned summary every key of the usage mapping and of the ETA
\* mapping starts with act_; an account whose usage header carries the bare id
\* is under act_<id> in the ETA mapping, the key its usage has; the usage
\* mapping has keys only from results whose path starts with act_.
C17_KeysPrefixed ==
  (sum_pc = "done" /\ sum_out.exc = "none") =>
    /\ \A k \in DOMAIN sum_out.val.insights_account_usages :
         startswith(k, ACT_PREFIX) /\ k \in ActAccounts(sum_results)
    /\ \A k \in DOMAIN sum_out.val.etas : startswith(k, ACT_PREFIX)
    /\ \A k \in BucAccounts :
         UsageEtas(sum_results, k) # {} => (ACT_PREFIX \o k) \in DOMAIN sum_out.val.etas
    /\ \A k \in SumAccounts :
         UsagePcts(sum_results, k) # {} =>
           k \in DOMAIN sum_out.val.insights_account_usages

\* C17 witness: account 1, bare in the usage header of a result addressed to
\* act_1, is under act_1 in both mappings
C17_Witness ==
  /\ sum_pc = "done"
  /\ sum_out.exc = "none"
  /\ UsageEtas(sum_results, "1") # {}
  /\ ACT_PREFIX \o "1" \in DOMAIN sum_out.val.etas
  /\ ACT_PREFIX \o "1" \in DOMAIN sum_out.val.insights_account_usages

====
